---- MODULE Spec2Model ----
(***************************************************************************)
(* The two version drivers of the edX library, scripts/increment_edx_build *)
(* and scripts/set_edx_version, as state machines over the text of         *)
(* edX/config/resource.h.                                                  *)
(*                                                                         *)
(* The text of the file is a sequence of tokens.  A token is a piece of    *)
(* text that none of the drivers' regular expressions can split:           *)
(*   "#define"           the literal #define                               *)
(*   "sp", "tabs"        a run of blanks: one space, or the three tabs the *)
(*                       explicit-set driver writes                        *)
(*   "nl"                the line feed                                     *)
(*   "ff"                the form feed: \s for a regular expression, a     *)
(*                       line boundary for str.splitlines, but no place    *)
(*                       where ^ or $ match and no end of . in re          *)
(*   "EDX_MAJOR", ...    the six macro names                               *)
(*   "num"  <<n>>        str(n): decimal digits, with a leading - if n < 0 *)
(*   "str"  <<a,b,c[,d]>> the quoted display string "a.b.c[.d]"            *)
(*   "hex"  digits       0x followed by the hex digits (most significant   *)
(*                       first)                                            *)
(*   "neghex" digits     0x- followed by the digits: what the format       *)
(*                       0x{val:08X} renders for a negative val            *)
(*   "text" <<i>>        any other text without blanks (a comment, code)   *)
(***************************************************************************)
EXTENDS Integers, Sequences, FiniteSets, TLC

Tok(k, v) == [k |-> k, v |-> v]

Define == Tok("#define", <<>>)
SP     == Tok("sp", <<>>)
TABS   == Tok("tabs", <<>>)
NL     == Tok("nl", <<>>)
FF     == Tok("ff", <<>>)
Name(n)  == Tok(n, <<>>)
Num(n)   == Tok("num", <<n>>)
Str(f)   == Tok("str", f)
Text(i)  == Tok("text", <<i>>)

NumericNames == <<"EDX_MAJOR", "EDX_MINOR", "EDX_PATCH", "EDX_BUILD">>

\* \s of the regular expressions
IsSpace(t) == t.k \in {"sp", "tabs", "nl", "ff"}

\* the boundaries str.splitlines splits at
IsLineBoundary(t) == t.k \in {"nl", "ff"}

\* \d+ : the decimal digits of a token (str(n) of a negative n starts with -)
IsDigits(t) == t.k = "num" /\ t.v[1] >= 0

Max(a, b) == IF a >= b THEN a ELSE b

(***************************************************************************)
(* Integers wider than the checker's: a Python int as its two's complement *)
(* hex digits, least significant first, continued for ever by 0 (neg =     *)
(* FALSE) or by F (neg = TRUE).                                            *)
(***************************************************************************)
RECURSIVE ToHexLE(_)
ToHexLE(n) == IF n = 0 THEN <<>> ELSE <<n % 16>> \o ToHexLE(n \div 16)

Big(x) ==
    IF x >= 0 THEN [neg |-> FALSE, d |-> ToHexLE(x)]
    ELSE [neg |-> TRUE,
          d |-> LET m == ToHexLE(-x - 1) IN [i \in 1..Len(m) |-> 15 - m[i]]]

BigDigit(a, i) == IF i <= Len(a.d) THEN a.d[i] ELSE IF a.neg THEN 15 ELSE 0

\* a << bits, bits a multiple of 4
Shl(a, bits) == [neg |-> a.neg, d |-> [i \in 1..(bits \div 4) |-> 0] \o a.d]

OrBit(x, y, k) == Max((x \div k) % 2, (y \div k) % 2) * k
OrDigit(x, y) == OrBit(x, y, 1) + OrBit(x, y, 2) + OrBit(x, y, 4) + OrBit(x, y, 8)

\* a | b
BigOr(a, b) ==
    [neg |-> a.neg \/ b.neg,
     d |-> [i \in 1..Max(Len(a.d), Len(b.d)) |->
                OrDigit(BigDigit(a, i), BigDigit(b, i))]]

\* a & 0xFF
AndFF(a) == [neg |-> FALSE, d |-> <<BigDigit(a, 1), BigDigit(a, 2)>>]

RECURSIVE TrimLE(_)
TrimLE(d) ==
    IF d # <<>> /\ d[Len(d)] = 0 THEN TrimLE(SubSeq(d, 1, Len(d) - 1)) ELSE d

RECURSIVE AddOneLE(_)
AddOneLE(d) ==
    IF d = <<>> THEN <<1>>
    ELSE IF d[1] < 15 THEN <<d[1] + 1>> \o Tail(d)
    ELSE <<0>> \o AddOneLE(Tail(d))

\* the digits of |a|, least significant first, without leading zeros
Magnitude(a) ==
    IF a.neg THEN TrimLE(AddOneLE([i \in 1..Len(a.d) |-> 15 - a.d[i]]))
    ELSE TrimLE(a.d)

Reverse(s) == [i \in 1..Len(s) |-> s[Len(s) + 1 - i]]

ZeroPad(be, width) == [i \in 1..(width - Len(be)) |-> 0] \o be

\* f"0x{val:0<width>X}": the sign, when there is one, takes one place of the width
FormatHex(a, width) ==
    LET m == Reverse(Magnitude(a))
        digits == IF m = <<>> THEN <<0>> ELSE m
    IN IF a.neg THEN Tok("neghex", ZeroPad(digits, width - 1))
       ELSE Tok("hex", ZeroPad(digits, width))

(***************************************************************************)
(* Text: str.splitlines, "\n".join, and the pieces the patterns share.     *)
(***************************************************************************)
RECURSIVE SkipSpace(_, _)
\* \s* from position i: the first position at or after i that holds no blank
SkipSpace(s, i) ==
    IF i > Len(s) \/ ~IsSpace(s[i]) THEN i ELSE SkipSpace(s, i + 1)

RECURSIVE SplitLines(_)
\* str.splitlines(): no empty last line after a final boundary
SplitLines(s) ==
    IF s = <<>> THEN <<>>
    ELSE LET cut == {i \in 1..Len(s) : IsLineBoundary(s[i])}
         IN IF cut = {} THEN <<s>>
            ELSE LET i == CHOOSE j \in cut : \A h \in cut : j <= h
                 IN <<SubSeq(s, 1, i - 1)>> \o SplitLines(SubSeq(s, i + 1, Len(s)))

RECURSIVE JoinLines(_)
\* "\n".join(new_lines) + "\n"
JoinLines(ls) ==
    IF ls = <<>> THEN <<NL>>
    ELSE IF Len(ls) = 1 THEN ls[1] \o <<NL>>
    ELSE ls[1] \o <<NL>> \o JoinLines(Tail(ls))

\* #define\s+NAME\s+ from position i: the position after it, 0 without a match
MatchPrefix(s, i, name) ==
    IF i > Len(s) \/ s[i] # Define THEN 0
    ELSE LET j == SkipSpace(s, i + 1)
         IN IF j = i + 1 \/ j > Len(s) \/ s[j] # Name(name) THEN 0
            ELSE LET m == SkipSpace(s, j + 1)
                 IN IF m = j + 1 THEN 0 ELSE m

(***************************************************************************)
(* increment_edx_build.py                                                  *)
(***************************************************************************)
\* patterns[...].match(line): the position of the value, 0 without a match.
\* major, minor, patch, build end in (\d+); string in ".*"; hex in
\* (0x[0-9A-Fa-f]+).  match() anchors at the start of the line only.
PatternMatch(line, name, kind) ==
    LET m == MatchPrefix(line, 1, name)
    IN IF m = 0 \/ m > Len(line) THEN 0
       ELSE IF kind = "num" /\ IsDigits(line[m]) THEN m
       ELSE IF kind # "num" /\ line[m].k = kind THEN m
       ELSE 0

NoValue == [found |-> FALSE, val |-> 0]

\* the extraction loop for one component: the last matching line wins
ExtractComponent(lines, name) ==
    LET hits == {i \in 1..Len(lines) : PatternMatch(lines[i], name, "num") # 0}
    IN IF hits = {} THEN NoValue
       ELSE LET i == CHOOSE j \in hits : \A h \in hits : h <= j
            IN [found |-> TRUE, val |-> lines[i][PatternMatch(lines[i], name, "num")].v[1]]

ExtractAll(lines) == [i \in 1..4 |-> ExtractComponent(lines, NumericNames[i])]

\* the check with patch left out of the tuple
MissingComponentButPatch(x) == \E i \in {1, 2, 4} : ~x[i].found

\* None in (major, minor, patch, build)
MissingComponent(x) == \E i \in 1..4 : ~x[i].found

BuildLimit == 65535

\* the wrap without the carry into patch
IncrementBuildNoCarry(v) ==
    IF v[4] + 1 > BuildLimit THEN <<v[1], v[2], v[3], 0>>
    ELSE <<v[1], v[2], v[3], v[4] + 1>>

\* build += 1, with the wrap into patch
IncrementBuild(v) ==
    IF v[4] + 1 > BuildLimit THEN <<v[1], v[2], v[3] + 1, 0>>
    ELSE <<v[1], v[2], v[3], v[4] + 1>>

\* f"{major}.{minor}.{patch}.{build}"
IncVersionString(v) == Str(v)

\* (major << 32) | (minor << 24) | (patch << 16) | build
IncHexVal(v) ==
    BigOr(BigOr(BigOr(Shl(Big(v[1]), 32), Shl(Big(v[2]), 24)), Shl(Big(v[3]), 16)),
          Big(v[4]))

\* f"0x{hex_val:010X}"
IncHexLiteral(v) == FormatHex(IncHexVal(v), 10)

\* the body of the update loop for one line
UpdateLine(line, v) ==
    IF PatternMatch(line, "EDX_BUILD", "num") # 0
    THEN SubSeq(line, 1, PatternMatch(line, "EDX_BUILD", "num") - 1) \o <<Num(v[4])>>
    ELSE IF PatternMatch(line, "EDX_VERSION_STRING", "str") # 0
    THEN SubSeq(line, 1, PatternMatch(line, "EDX_VERSION_STRING", "str") - 1)
             \o <<IncVersionString(v)>>
    ELSE IF PatternMatch(line, "EDX_VERSION", "hex") # 0
    THEN SubSeq(line, 1, PatternMatch(line, "EDX_VERSION", "hex") - 1)
             \o <<IncHexLiteral(v)>>
    ELSE line

UpdateLines(lines, v) == [i \in 1..Len(lines) |-> UpdateLine(lines[i], v)]

(***************************************************************************)
(* set_edx_version.py                                                      *)
(***************************************************************************)
\* An argument vector: given = len(argv) >= 2; argv[1] is v times the letter
\* v, then the fields separated by dots.  A field is an integer literal
\* (int = TRUE, its value n) or some other text (int = FALSE).
Field(n)  == [int |-> TRUE, n |-> n]
BadField  == [int |-> FALSE, n |-> 0]
Argv(v, parts) == [given |-> TRUE, v |-> v, parts |-> parts]
NoArgv == [given |-> FALSE, v |-> 0, parts |-> <<>>]

\* parse_version raises: SystemExit on the field count, ValueError from int()
ParseFails(a) ==
    \/ Len(a.parts) < 3
    \/ Len(a.parts) > 4
    \/ \E i \in 1..Len(a.parts) : ~a.parts[i].int

\* parse_version(argv[1].lstrip("v")), for an argument it accepts
ParseVersion(a) ==
    <<a.parts[1].n, a.parts[2].n, a.parts[3].n,
      IF Len(a.parts) = 4 THEN a.parts[4].n ELSE 0>>

\* version_str: the build is left out when it is 0
SetVersionString(v) == IF v[4] # 0 THEN Str(v) ELSE Str(<<v[1], v[2], v[3]>>)

\* pack_hex
PackHex(v) ==
    FormatHex(
        BigOr(BigOr(BigOr(Shl(Big(v[1]), 24), Shl(Big(v[2]), 16)), Shl(Big(v[3]), 8)),
              AndFF(Big(v[4]))),
        8)

\* ^ under re.MULTILINE: the start of the text and after each line feed
AtLineStart(s, i) == i = 1 \/ s[i - 1] = NL

\* $ under re.MULTILINE: the end of the text and before each line feed
AtLineEnd(s, i) == i = Len(s) + 1 \/ s[i] = NL

\* $ alone after the digits: nothing but the value is replaced
NoDotStarEnd(s, i) == i

RECURSIVE DotStarEnd(_, _)
\* .*$ from position i: . stops only at a line feed
DotStarEnd(s, i) == IF AtLineEnd(s, i) THEN i ELSE DotStarEnd(s, i + 1)

\* \s*$ from position i: the longest run of blanks, line feeds included, that
\* ends where $ matches; 0 when no such run exists
SpaceStarEnd(s, i) ==
    LET ends == {j \in i..SkipSpace(s, i) : AtLineEnd(s, j)}
    IN IF ends = {} THEN 0 ELSE CHOOSE j \in ends : \A h \in ends : h <= j

\* A substitution of re.sub as an edit [i, m, e]: the match starts at i, its
\* group 1 ends before m, the value at m is replaced and the text after it up
\* to e (kept out) is dropped with it.  The matches of one pattern never
\* overlap: each starts with #define at the start of a line, and no match
\* holds a line feed followed by #define.
ApplyEdits(s, edits, new) ==
    LET dropped == {p \in 1..Len(s) : \E d \in edits : d.m < p /\ p < d.e}
        replaced == {d.m : d \in edits}
        kept == SelectSeq([p \in 1..Len(s) |-> p], LAMBDA p : p \notin dropped)
    IN [k \in 1..Len(kept) |-> IF kept[k] \in replaced THEN new ELSE s[kept[k]]]

\* the places where ^#define\s+NAME\s+ matches and a value follows it, each
\* with the position of that value
PrefixMatches(s, name) ==
    {x \in {[i |-> i, m |-> MatchPrefix(s, i, name)] :
                i \in {j \in 1..Len(s) : s[j] = Define /\ AtLineStart(s, j)}} :
        x.m # 0 /\ x.m <= Len(s)}

\* the matches of ^(#define\s+NAME\s+)(\d+).*$ in content
DefineMatches(s, name) ==
    {[i |-> x.i, m |-> x.m, e |-> DotStarEnd(s, x.m + 1)] :
        x \in {y \in PrefixMatches(s, name) : IsDigits(s[y.m])}}

\* sub_define(name, value): re.subn, and the append when it replaced nothing
SubDefine(content, name, value) ==
    LET found == DefineMatches(content, name)
    IN IF Cardinality(found) = 0
       THEN content \o <<NL, Define, SP, Name(name), TABS, Num(value), NL>>
       ELSE ApplyEdits(content, found, Num(value))

\* the matches of ^(#define\s+NAME\s+)<literal>\s*$ in content, for the quoted
\* string ("[^"]*", kind "str") and the hex literal (0x[0-9A-Fa-f]+, kind "hex")
LiteralMatches(s, name, kind) ==
    {z \in {[i |-> x.i, m |-> x.m, e |-> SpaceStarEnd(s, x.m + 1)] :
                x \in {y \in PrefixMatches(s, name) : s[y.m].k = kind}} :
        z.e # 0}

\* re.sub(^(#define\s+NAME\s+")[^"]*(")\s*$, ...) and its hex counterpart
SubLiteral(content, name, kind, new) ==
    ApplyEdits(content, LiteralMatches(content, name, kind), new)

\* the six substitutions of main, in its order
SetSubstitute(content, v) ==
    LET c1 == SubDefine(content, "EDX_MAJOR", v[1])
        c2 == SubDefine(c1, "EDX_MINOR", v[2])
        c3 == SubDefine(c2, "EDX_PATCH", v[3])
        c4 == SubDefine(c3, "EDX_BUILD", v[4])
        c5 == SubLiteral(c4, "EDX_VERSION_STRING", "str", SetVersionString(v))
    IN SubLiteral(c5, "EDX_VERSION", "hex", PackHex(v))

(***************************************************************************)
(* The files the runs start from, and the arguments of the explicit-set    *)
(* driver.                                                                 *)
(***************************************************************************)
\* how many driver runs follow one another on a file
MaxRuns == 2

DefLine(name, value) == <<Define, SP, Name(name), SP, value>>

\* the six macro lines of a file that holds version v: the numeric macros,
\* the display string and the packed literal as the increment driver writes
\* them
MacroLine(k, v) ==
    IF k <= 4 THEN DefLine(NumericNames[k], Num(v[k]))
    ELSE IF k = 5 THEN DefLine("EDX_VERSION_STRING", Str(v))
    ELSE DefLine("EDX_VERSION", IncHexLiteral(v))

Comment == <<SP, Text(1)>>
OtherLine == <<Text(2)>>
BlankLine == <<>>

\* text that ends in a line feed, and the same text without it
WithNewline(ls) == JoinLines(ls)
WithoutNewline(ls) == SubSeq(JoinLines(ls), 1, Len(JoinLines(ls)) - 1)

PlainLines(v) == [k \in 1..6 |-> MacroLine(k, v)]

BaseVersion == <<1, 2, 3, 41>>

PlainVersions ==
    {BaseVersion, <<1, 2, 3, 65535>>, <<1, 2, 255, 65535>>, <<256, 2, 3, 41>>,
     <<1, 2, 3, 70000>>, <<0, 0, 0, 0>>}

\* each macro once, '#define NAME value', nothing after the value
PlainFiles == {WithNewline(PlainLines(v)) : v \in PlainVersions}

\* some macro lines carry a comment after the value
CommentFiles ==
    {WithNewline([k \in 1..6 |->
        IF k \in S THEN MacroLine(k, BaseVersion) \o Comment
        ELSE MacroLine(k, BaseVersion)]) :
            S \in {{1}, {4}, {5}, {6}, {1, 2, 3, 4, 5, 6}}}

\* some macros are not defined: another line stands in their place
AbsentFiles ==
    {WithNewline([k \in 1..6 |->
        IF k \in S THEN OtherLine ELSE MacroLine(k, BaseVersion)]) :
            S \in {{1}, {2}, {3}, {4}, {5}, {6}, {1, 2, 3, 4}}}

M(k) == MacroLine(k, BaseVersion)

\* blank lines, the end of the file, other text and blanks around the macros
LayoutFiles ==
    {WithNewline(<<M(1), M(2), M(3), M(4), M(5), BlankLine, BlankLine, M(6)>>),
     WithoutNewline(<<M(1), M(2), M(3), M(4), M(5), BlankLine, BlankLine, M(6)>>),
     WithNewline(<<OtherLine, M(1), M(2), M(3), M(4), M(6), M(5)>>),
     WithoutNewline(<<OtherLine, M(1), M(2), M(3), M(4), M(6), M(5)>>),
     WithNewline(<<M(1), M(2), M(3), M(4), M(5) \o <<SP>>, OtherLine, M(6)>>),
     WithNewline(<<M(1), M(2), M(3), M(4), <<Text(2), FF, Text(3)>>, M(5), M(6)>>),
     WithNewline(<<M(1), M(2), M(3), M(4), DefLine("EDX_BUILD", Num(7)), M(5), M(6)>>),
     WithNewline(<<<<SP>> \o M(1), M(2), M(3), M(4), M(5), M(6)>>),
     WithNewline(<<M(1), M(2), M(3), M(4), M(5), M(6), <<TABS>>, BlankLine>>)}

Files == PlainFiles \cup CommentFiles \cup AbsentFiles \cup LayoutFiles

\* sys.argv of the explicit-set driver: no argument; two and five fields; a
\* field that is no integer; 2.5.1; 1.0.0.300; v1.2.3.0; 256.0.0; -1.0.0.0;
\* 1.2.3.65535; 7.8.9.10
Arguments ==
    {NoArgv,
     Argv(0, <<Field(1), Field(2)>>),
     Argv(0, <<Field(1), Field(2), Field(3), Field(4), Field(5)>>),
     Argv(0, <<Field(1), BadField, Field(3)>>),
     Argv(0, <<Field(2), Field(5), Field(1)>>),
     Argv(0, <<Field(1), Field(0), Field(0), Field(300)>>),
     Argv(1, <<Field(1), Field(2), Field(3), Field(0)>>),
     Argv(0, <<Field(256), Field(0), Field(0)>>),
     Argv(0, <<Field(-1), Field(0), Field(0), Field(0)>>),
     Argv(0, <<Field(1), Field(2), Field(3), Field(65535)>>),
     Argv(0, <<Field(7), Field(8), Field(9), Field(10)>>)}

(***************************************************************************)
(* The state: resource.h, and for each of two processes the run it is in.  *)
(***************************************************************************)
VARIABLES
    file,       \* the text of resource.h
    exists,     \* whether resource.h exists
    runs,       \* the runs started so far
    pc,         \* where each process is in its script
    drv,        \* the driver each process runs: "inc", "set" or "none"
    argv,       \* sys.argv of the explicit-set driver
    lines,      \* increment driver: lines, then new_lines
    content,    \* explicit-set driver: content
    found,      \* increment driver: major, minor, patch, build as extracted
    ver,        \* the version the run computed
    before,     \* the text of resource.h when the run started
    rd,         \* the text the run read
    nwrites,    \* how often the run has opened resource.h for writing
    lastWriter, \* the process that wrote resource.h last, 0 for none
    file0,      \* the text of resource.h in the initial state
    drivers     \* the drivers run so far

vars == <<file, exists, runs, pc, drv, argv, lines, content, found, ver, before,
          rd, nwrites, lastWriter, file0, drivers>>

Procs == {1, 2}

NoVersion == <<0, 0, 0, 0>>

Init ==
    /\ \/ file \in Files /\ exists = TRUE
       \/ file = <<>> /\ exists = FALSE
    /\ runs = 0
    /\ pc = [p \in Procs |-> "idle"]
    /\ drv = [p \in Procs |-> "none"]
    /\ argv = [p \in Procs |-> NoArgv]
    /\ lines = [p \in Procs |-> <<>>]
    /\ content = [p \in Procs |-> <<>>]
    /\ found = [p \in Procs |-> NoVersion]
    /\ ver = [p \in Procs |-> NoVersion]
    /\ before = [p \in Procs |-> <<>>]
    /\ rd = [p \in Procs |-> <<>>]
    /\ nwrites = [p \in Procs |-> 0]
    /\ lastWriter = 0
    /\ file0 = file
    /\ drivers = {}

\* a process starts a script: a fresh interpreter
Begin(p, d, a) ==
    /\ runs' = runs + 1
    /\ pc' = [pc EXCEPT ![p] = IF d = "inc" THEN "inc_read" ELSE "set_args"]
    /\ drv' = [drv EXCEPT ![p] = d]
    /\ argv' = [argv EXCEPT ![p] = a]
    /\ lines' = [lines EXCEPT ![p] = <<>>]
    /\ content' = [content EXCEPT ![p] = <<>>]
    /\ found' = [found EXCEPT ![p] = NoVersion]
    /\ ver' = [ver EXCEPT ![p] = NoVersion]
    /\ before' = [before EXCEPT ![p] = file]
    /\ rd' = [rd EXCEPT ![p] = <<>>]
    /\ nwrites' = [nwrites EXCEPT ![p] = 0]
    /\ drivers' = drivers \cup {d}
    /\ UNCHANGED <<file, exists, lastWriter, file0>>

Goto(p, l) == pc' = [pc EXCEPT ![p] = l]

\* an uncaught exception or SystemExit: the interpreter exits
Abort(p) == Goto(p, "aborted")

Finished(p) == pc[p] \in {"idle", "done", "aborted"}

\* Path.write_text opens the file with mode "w": it is created or truncated
OpenForWriting(p) ==
    /\ file' = <<>>
    /\ exists' = TRUE
    /\ nwrites' = [nwrites EXCEPT ![p] = @ + 1]

\* the write of a file opened to append
WriteTextAppended(p, text) ==
    /\ file' = file \o text
    /\ lastWriter' = p

\* Path.write_text writes the text and closes the file: the text goes to the
\* start of the file, where the position of the fresh open is, over what is
\* there, and what lies beyond its end stays
WriteText(p, text) ==
    /\ file' = text \o SubSeq(file, Len(text) + 1, Len(file))
    /\ lastWriter' = p

---------------------------------------------------------------------------
\* increment_edx_build.py, run once more on the file
IncStart(p) ==
    /\ Finished(p)
    /\ runs < MaxRuns
    /\ Begin(p, "inc", NoArgv)

\* lines = resource_file.read_text(...).splitlines()
IncRead(p) ==
    /\ pc[p] = "inc_read"
    /\ IF exists
       THEN /\ lines' = [lines EXCEPT ![p] = SplitLines(file)]
            /\ rd' = [rd EXCEPT ![p] = file]
            /\ Goto(p, "inc_extract")
       ELSE /\ Abort(p)
            /\ UNCHANGED <<lines, rd>>
    /\ UNCHANGED <<file, exists, runs, drv, argv, content, found, ver, before,
                   nwrites, lastWriter, file0, drivers>>

\* the extraction loop and the check for None
IncExtract(p) ==
    /\ pc[p] = "inc_extract"
    /\ LET x == ExtractAll(lines[p])
       IN IF MissingComponent(x)
          THEN Abort(p) /\ UNCHANGED found
          ELSE /\ found' = [found EXCEPT ![p] = [i \in 1..4 |-> x[i].val]]
               /\ Goto(p, "inc_bump")
    /\ UNCHANGED <<file, exists, runs, drv, argv, lines, content, ver, before,
                   rd, nwrites, lastWriter, file0, drivers>>

\* build += 1 with the wrap; version_string and hex_val follow from it
IncBump(p) ==
    /\ pc[p] = "inc_bump"
    /\ ver' = [ver EXCEPT ![p] = IncrementBuild(found[p])]
    /\ Goto(p, "inc_update")
    /\ UNCHANGED <<file, exists, runs, drv, argv, lines, content, found, before,
                   rd, nwrites, lastWriter, file0, drivers>>

\* the update loop: new_lines
IncUpdate(p) ==
    /\ pc[p] = "inc_update"
    /\ lines' = [lines EXCEPT ![p] = UpdateLines(lines[p], ver[p])]
    /\ Goto(p, "inc_open")
    /\ UNCHANGED <<file, exists, runs, drv, argv, content, found, ver, before,
                   rd, nwrites, lastWriter, file0, drivers>>

\* resource_file.write_text(...): the open
IncOpen(p) ==
    /\ pc[p] = "inc_open"
    /\ OpenForWriting(p)
    /\ Goto(p, "inc_write")
    /\ UNCHANGED <<runs, drv, argv, lines, content, found, ver, before, rd,
                   lastWriter, file0, drivers>>

\* resource_file.write_text("\n".join(new_lines) + "\n"): the write, and print
IncWrite(p) ==
    /\ pc[p] = "inc_write"
    /\ WriteText(p, JoinLines(lines[p]))
    /\ Goto(p, "done")
    /\ UNCHANGED <<exists, runs, drv, argv, lines, content, found, ver, before,
                   rd, nwrites, file0, drivers>>

---------------------------------------------------------------------------
\* set_edx_version.py, run with some argument vector
SetStart(p) ==
    /\ Finished(p)
    /\ runs < MaxRuns
    /\ \E a \in Arguments : Begin(p, "set", a)

\* if len(argv) < 2: raise SystemExit
SetArgs(p) ==
    /\ pc[p] = "set_args"
    /\ IF argv[p].given THEN Goto(p, "set_parse") ELSE Abort(p)
    /\ UNCHANGED <<file, exists, runs, drv, argv, lines, content, found, ver,
                   before, rd, nwrites, lastWriter, file0, drivers>>

\* parse_version; version_str and hex_ver follow from its result
SetParse(p) ==
    /\ pc[p] = "set_parse"
    /\ IF ParseFails(argv[p])
       THEN Abort(p) /\ UNCHANGED ver
       ELSE /\ ver' = [ver EXCEPT ![p] = ParseVersion(argv[p])]
            /\ Goto(p, "set_exists")
    /\ UNCHANGED <<file, exists, runs, drv, argv, lines, content, found, before,
                   rd, nwrites, lastWriter, file0, drivers>>

\* if not res_path.exists(): raise SystemExit
SetExists(p) ==
    /\ pc[p] = "set_exists"
    /\ IF exists THEN Goto(p, "set_read") ELSE Abort(p)
    /\ UNCHANGED <<file, exists, runs, drv, argv, lines, content, found, ver,
                   before, rd, nwrites, lastWriter, file0, drivers>>

\* content = res_path.read_text(...)
SetRead(p) ==
    /\ pc[p] = "set_read"
    /\ content' = [content EXCEPT ![p] = file]
    /\ rd' = [rd EXCEPT ![p] = file]
    /\ Goto(p, "set_sub")
    /\ UNCHANGED <<file, exists, runs, drv, argv, lines, found, ver, before,
                   nwrites, lastWriter, file0, drivers>>

\* the four sub_define calls and the two re.sub calls
SetSub(p) ==
    /\ pc[p] = "set_sub"
    /\ content' = [content EXCEPT ![p] = SetSubstitute(content[p], ver[p])]
    /\ Goto(p, "set_open")
    /\ UNCHANGED <<file, exists, runs, drv, argv, lines, found, ver, before, rd,
                   nwrites, lastWriter, file0, drivers>>

\* res_path.write_text(content): the open
SetOpen(p) ==
    /\ pc[p] = "set_open"
    /\ OpenForWriting(p)
    /\ Goto(p, "set_write")
    /\ UNCHANGED <<runs, drv, argv, lines, content, found, ver, before, rd,
                   lastWriter, file0, drivers>>

\* res_path.write_text(content): the write, and print
SetWrite(p) ==
    /\ pc[p] = "set_write"
    /\ WriteText(p, content[p])
    /\ Goto(p, "done")
    /\ UNCHANGED <<exists, runs, drv, argv, lines, content, found, ver, before,
                   rd, nwrites, file0, drivers>>

---------------------------------------------------------------------------
\* One invocation after the other, each run to its end before the next.
Next ==
    \/ IncStart(1)
    \/ IncRead(1)
    \/ IncExtract(1)
    \/ IncBump(1)
    \/ IncUpdate(1)
    \/ IncOpen(1)
    \/ IncWrite(1)
    \/ SetStart(1)
    \/ SetArgs(1)
    \/ SetParse(1)
    \/ SetExists(1)
    \/ SetRead(1)
    \/ SetSub(1)
    \/ SetOpen(1)
    \/ SetWrite(1)

Spec == Init /\ [][Next]_vars

\* Two invocations of the increment driver at the same time: nothing orders
\* the steps of one against the steps of the other.
RaceStart(p) ==
    /\ pc[p] = "idle"
    /\ Begin(p, "inc", NoArgv)

NextRace ==
    \E p \in Procs :
        \/ RaceStart(p)
        \/ IncRead(p)
        \/ IncExtract(p)
        \/ IncBump(p)
        \/ IncUpdate(p)
        \/ IncOpen(p)
        \/ IncWrite(p)

SpecRace == Init /\ [][NextRace]_vars

(***************************************************************************)
(* What the properties speak of.                                           *)
(***************************************************************************)
RECURSIVE TextLines(_)
\* the lines of a text: each ends at a line feed, the last one also at the end
TextLines(s) ==
    IF s = <<>> THEN <<>>
    ELSE LET cut == {i \in 1..Len(s) : s[i] = NL}
         IN IF cut = {} THEN <<s>>
            ELSE LET i == CHOOSE j \in cut : \A h \in cut : j <= h
                 IN <<SubSeq(s, 1, i - 1)>> \o TextLines(SubSeq(s, i + 1, Len(s)))

Range(f) == {f[i] : i \in DOMAIN f}

\* the line is '#define NAME <decimal> ...'
DefinesNumber(line, name) ==
    /\ Len(line) >= 5
    /\ line[1] = Define /\ line[2].k \in {"sp", "tabs"} /\ line[3] = Name(name)
    /\ line[4].k \in {"sp", "tabs"} /\ line[5].k = "num" /\ line[5].v[1] >= 0

\* the line is '#define NAME <value> ...', whatever the value
DefinesMacro(line, name) ==
    /\ Len(line) >= 5
    /\ line[1] = Define /\ line[2].k \in {"sp", "tabs"} /\ line[3] = Name(name)
    /\ line[4].k \in {"sp", "tabs"}

\* the process has run the increment driver at least up to the new version
IncComputed(p) ==
    drv[p] = "inc" /\ pc[p] \in {"inc_update", "inc_open", "inc_write", "done"}

IncDone(p) == drv[p] = "inc" /\ pc[p] = "done"
SetDone(p) == drv[p] = "set" /\ pc[p] = "done"

\* C1: an increment run that decoded (major, minor, patch, build) computes
\* (major, minor, patch, build + 1) when build + 1 <= 65535 and
\* (major, minor, patch + 1, 0) otherwise; after the run every EDX_BUILD line
\* holds the new build and every EDX_VERSION_STRING line shows the new
\* version; major and minor never change, patch only on the wrap.
C1_IncrementWithCarry ==
    \A p \in Procs :
        /\ IncComputed(p) =>
              /\ ver[p][1] = found[p][1]
              /\ ver[p][2] = found[p][2]
              /\ found[p][4] + 1 <= 65535 =>
                    ver[p][3] = found[p][3] /\ ver[p][4] = found[p][4] + 1
              /\ found[p][4] + 1 > 65535 =>
                    ver[p][3] = found[p][3] + 1 /\ ver[p][4] = 0
        /\ IncDone(p) /\ lastWriter = p =>
              /\ \E l \in Range(TextLines(file)) : DefinesNumber(l, "EDX_BUILD")
              /\ \A l \in Range(TextLines(file)) :
                    /\ DefinesNumber(l, "EDX_BUILD") => l[5] = Num(ver[p][4])
                    /\ DefinesMacro(l, "EDX_VERSION_STRING") /\ l[5].k = "str" =>
                          l[5] = Str(ver[p])

\* C1's case: a finished increment run that wrapped build 65535 to 0
C1_Witness ==
    IncDone(1) /\ found[1][4] = 65535 /\ ver[1][4] = 0 /\ ver[1][3] = found[1][3] + 1

\* the run's precondition fails: the claim's list of fatal conditions, and the
\* increment driver's missing file
C2_Fatal(p) ==
    \/ /\ drv[p] = "inc"
       /\ \/ ~exists
          \/ \E n \in Range(NumericNames) :
                ~\E l \in Range(TextLines(before[p])) : DefinesNumber(l, n)
    \/ /\ drv[p] = "set"
       /\ \/ ~argv[p].given
          \/ Len(argv[p].parts) \notin {3, 4}
          \/ \E i \in 1..Len(argv[p].parts) : ~argv[p].parts[i].int
          \/ ~exists

\* C2: a run whose precondition fails aborts with the file as it was before
\* the run and never opens it for writing; every aborted run left the file as
\* it was; a run that does not abort opens the file for writing exactly once,
\* after it has computed all its substitutions, and leaves in it the text it
\* computed.
C2_AllOrNothing ==
    /\ drv[1] # "none" /\ C2_Fatal(1) =>
          /\ file = before[1]
          /\ nwrites[1] = 0
          /\ pc[1] # "done"
    /\ pc[1] = "aborted" => file = before[1] /\ nwrites[1] = 0
    /\ ~exists => file = <<>> /\ nwrites[1] = 0
    /\ nwrites[1] <= 1
    /\ nwrites[1] = 1 => pc[1] \in {"inc_write", "set_write", "done"}
    /\ pc[1] = "inc_write" =>
          lines[1] = UpdateLines(SplitLines(rd[1]), ver[1])
    /\ pc[1] = "set_write" => content[1] = SetSubstitute(rd[1], ver[1])
    /\ pc[1] = "done" =>
          /\ nwrites[1] = 1
          /\ drv[1] = "inc" => file = JoinLines(lines[1])
          /\ drv[1] = "set" => file = content[1]

\* C2's case: the increment driver aborted on a file that lacks EDX_PATCH
C2_Witness ==
    /\ pc[1] = "aborted" /\ drv[1] = "inc" /\ exists
    /\ ~\E l \in Range(TextLines(file)) : DefinesNumber(l, "EDX_PATCH")
    /\ \E l \in Range(TextLines(file)) : DefinesNumber(l, "EDX_MAJOR")

AllNames == Range(NumericNames) \cup {"EDX_VERSION_STRING", "EDX_VERSION"}

\* the line is '#define EDX_VERSION_STRING "..." ...'
DefinesString(line) == DefinesMacro(line, "EDX_VERSION_STRING") /\ line[5].k = "str"

\* the line is '#define EDX_VERSION 0x... ...'
DefinesHex(line) == DefinesMacro(line, "EDX_VERSION") /\ line[5].k = "hex"

\* text other than blanks follows the value of a macro line
HasTrailingText(line) == \E i \in 6..Len(line) : ~IsSpace(line[i])

\* the first four tokens, '#define NAME ', with another value and the same
\* text after it, or with nothing after it
WithValue(line, value) == SubSeq(line, 1, 4) \o <<value>> \o SubSeq(line, 6, Len(line))
CutAfterValue(line, value) == SubSeq(line, 1, 4) \o <<value>>

\* the definition sub_define appends
AppendedDefinition(name, value) == <<Define, SP, Name(name), TABS, Num(value)>>

\* a is a macro line and b the same line with, at most, another value
RewrittenInPlace(a, b) ==
    \E n \in AllNames :
        DefinesMacro(a, n) /\ DefinesMacro(b, n) /\ SubSeq(a, 1, 4) = SubSeq(b, 1, 4)

\* C3: the output of a successful explicit-set run holds the input lines in
\* their order and count, each unchanged or rewritten in place, followed
\* only by the appended definitions (and the blank lines that separate them).
C3_NoLineDeletedOrReordered ==
    SetDone(1) =>
        LET inL == TextLines(rd[1])
            outL == TextLines(file)
        IN /\ Len(outL) >= Len(inL)
           /\ \A k \in 1..Len(inL) :
                 outL[k] = inL[k] \/ RewrittenInPlace(inL[k], outL[k])
           /\ \A k \in (Len(inL) + 1)..Len(outL) :
                 \/ outL[k] = <<>>
                 \/ \E i \in 1..4 :
                       outL[k] = AppendedDefinition(NumericNames[i], ver[1][i])

\* no pattern of the increment driver's update loop matches the line
IncUnmatched(line) ==
    /\ ~DefinesNumber(line, "EDX_BUILD")
    /\ ~DefinesString(line)
    /\ ~DefinesHex(line)

\* C4: the file a successful increment run writes has as many lines as its
\* input, every line that matches none of the EDX_BUILD, EDX_VERSION_STRING
\* and EDX_VERSION patterns is the input line at the same position, and the
\* text ends with a line feed.
C4_UnmatchedLinesPassThrough ==
    IncDone(1) =>
        LET inL == TextLines(rd[1])
            outL == TextLines(file)
        IN /\ Len(outL) = Len(inL)
           /\ \A k \in 1..Len(inL) : IncUnmatched(inL[k]) => outL[k] = inL[k]
           /\ file[Len(file)] = NL

\* the value the explicit-set driver gives macro name
SetValue(name, v) ==
    IF name = "EDX_VERSION_STRING" THEN SetVersionString(v)
    ELSE IF name = "EDX_VERSION" THEN PackHex(v)
    ELSE Num(v[CHOOSE i \in 1..4 : NumericNames[i] = name])

\* the value the increment driver gives macro name
IncValue(name, v) ==
    IF name = "EDX_VERSION_STRING" THEN IncVersionString(v)
    ELSE IF name = "EDX_VERSION" THEN IncHexLiteral(v)
    ELSE Num(v[CHOOSE i \in 1..4 : NumericNames[i] = name])

\* a line of the form the driver's rule for macro name looks for
WellFormed(line, name) ==
    IF name = "EDX_VERSION_STRING" THEN DefinesString(line)
    ELSE IF name = "EDX_VERSION" THEN DefinesHex(line)
    ELSE DefinesNumber(line, name)

IncNames == {"EDX_BUILD", "EDX_VERSION_STRING", "EDX_VERSION"}

\* the increment driver's half of C5: a line it substitutes loses the text
\* that followed its value
IncLosesTrailingText ==
    IncDone(1) =>
        \A n \in IncNames : \A l \in Range(TextLines(rd[1])) :
            WellFormed(l, n) /\ HasTrailingText(l) =>
                /\ CutAfterValue(l, IncValue(n, ver[1])) \in Range(TextLines(file))
                /\ WithValue(l, IncValue(n, ver[1])) \notin Range(TextLines(file))

Byte(b) == <<b \div 16, b % 16>>

SetParsed(p) ==
    /\ drv[p] = "set"
    /\ pc[p] \in {"set_exists", "set_read", "set_sub", "set_open", "set_write", "done"}

\* C6: for every version the explicit-set driver accepts, the EDX_VERSION
\* literal is 0x and exactly 8 hex digits, the bytes major, minor, patch and
\* build & 0xFF; the display string and the EDX_BUILD macro carry the build
\* in full.
C6_SchemeBPacking ==
    /\ SetParsed(1) =>
          /\ PackHex(ver[1]).k = "hex"
          /\ Len(PackHex(ver[1]).v) = 8
          /\ (\A i \in 1..3 : ver[1][i] \in 0..255) =>
                PackHex(ver[1]).v =
                    Byte(ver[1][1]) \o Byte(ver[1][2]) \o Byte(ver[1][3])
                        \o Byte(ver[1][4] % 256)
          /\ ver[1][4] # 0 => SetVersionString(ver[1]).v[4] = ver[1][4]
    /\ SetDone(1) =>
          \A l \in Range(TextLines(file)) :
              DefinesNumber(l, "EDX_BUILD") => l[5] = Num(ver[1][4])

\* C8: for every successful increment run, the EDX_VERSION literal is 0x and
\* exactly 10 hex digits: the bytes major, minor, patch and the two bytes of
\* build, over the version after the increment.
C8_SchemeAPacking ==
    IncComputed(1) =>
        /\ IncHexLiteral(ver[1]).k = "hex"
        /\ Len(IncHexLiteral(ver[1]).v) = 10
        /\ (\A i \in 1..3 : ver[1][i] \in 0..255) =>
              IncHexLiteral(ver[1]).v =
                  Byte(ver[1][1]) \o Byte(ver[1][2]) \o Byte(ver[1][3])
                      \o Byte(ver[1][4] \div 256) \o Byte(ver[1][4] % 256)

\* the lines of a text that hold more than blanks
IsBlank(line) == \A i \in 1..Len(line) : IsSpace(line[i])
NonBlankLines(text) == SelectSeq(TextLines(text), LAMBDA l : ~IsBlank(l))

\* how many lines of the text define macro name, whatever the value
CountDefs(text, name) ==
    Cardinality({k \in 1..Len(TextLines(text)) : DefinesMacro(TextLines(text)[k], name)})

\* the text has a line '#define NAME <decimal>'
HasNumberDef(text, name) == \E l \in Range(TextLines(text)) : DefinesNumber(l, name)

\* one explicit-set run: a numeric macro the input lacks is appended once,
\* after the input's lines, which keep their order; one it has is not
\* appended and each of its lines takes the supplied value
C7_OneRun ==
    SetDone(1) =>
        LET inL == NonBlankLines(rd[1])
            outL == NonBlankLines(file)
            missing == {i \in 1..4 : ~HasNumberDef(rd[1], NumericNames[i])}
        IN /\ Len(outL) = Len(inL) + Cardinality(missing)
           /\ \A j \in 1..Len(inL) :
                 outL[j] = inL[j] \/ RewrittenInPlace(inL[j], outL[j])
           /\ \A i \in 1..4 :
                 IF i \in missing
                 THEN Cardinality({j \in (Len(inL) + 1)..Len(outL) :
                         outL[j] = AppendedDefinition(NumericNames[i], ver[1][i])}) = 1
                 ELSE \A j \in 1..Len(inL) :
                         DefinesNumber(inL[j], NumericNames[i]) =>
                             outL[j] = CutAfterValue(inL[j], Num(ver[1][i]))

\* C7: a successful explicit-set run appends one definition of each numeric
\* macro the input lacks, after the original lines in their order, and
\* substitutes the value on every line of a macro the input has; after any
\* sequence of successful explicit-set runs each numeric macro the original
\* file lacked is defined exactly once.
C7_MissingAppendedOnce ==
    /\ C7_OneRun
    /\ Finished(1) /\ drivers = {"set"} /\ lastWriter = 1 =>
          \A i \in 1..4 :
              ~HasNumberDef(file0, NumericNames[i]) =>
                  CountDefs(file, NumericNames[i]) = 1

\* the version string of the line agrees with the numeric macro lines of the
\* text: field i is the value of every line of the i-th numeric macro, and a
\* string of three fields counts as build 0
StringField(l, i) == IF i <= Len(l[5].v) THEN l[5].v[i] ELSE 0
Consistent(text) ==
    \A l \in Range(TextLines(text)) :
        DefinesString(l) =>
            \A i \in 1..4 : \A m \in Range(TextLines(text)) :
                DefinesMacro(m, NumericNames[i]) /\ m[5].k = "num" =>
                    m[5].v[1] = StringField(l, i)

\* C9: from a file that holds each of the six macros once in plain form, with
\* a version string that agrees with the numeric macros, the version string
\* and the numeric macros of the file agree after every sequence of runs of
\* the two drivers.
C9_MacrosStayConsistent ==
    file0 \in PlainFiles /\ Finished(1) => Consistent(file)

\* what the increment driver computes from a text it read
IncOutput(text) ==
    LET x == ExtractAll(SplitLines(text))
    IN JoinLines(UpdateLines(SplitLines(text),
                             IncrementBuild([i \in 1..4 |-> x[i].val])))

\* C10: when two increment runs interleave and both have ended, the file is
\* the whole output the run that wrote last computed from the text it read,
\* never a mixture of two outputs.
C10_LastWriterWins ==
    (\A q \in Procs : Finished(q)) /\ lastWriter # 0 =>
        /\ pc[lastWriter] = "done"
        /\ file = IncOutput(rd[lastWriter])
        /\ file = JoinLines(lines[lastWriter])

\* C10's case, the lost update: both runs read build 41, both wrote, and
\* EDX_BUILD is left at 42
C10_Witness ==
    /\ \A q \in Procs : IncDone(q) /\ found[q][4] = 41 /\ nwrites[q] = 1
    /\ \E l \in Range(TextLines(file)) : DefinesNumber(l, "EDX_BUILD")
    /\ \A l \in Range(TextLines(file)) :
          DefinesNumber(l, "EDX_BUILD") => l[5] = Num(42)

====
